---- MODULE Spec2Model ----
(***************************************************************************)
(* Model of auto_routine_nanopore_qc/core.py: run discovery                *)
(* (find_run_dirs, scan) and analysis dispatch (analyze_run).              *)
(*                                                                         *)
(* Text is modelled as a sequence of one-character strings, so that the    *)
(* regular expressions and the split/replace/join calls of the source are  *)
(* computed and not assumed.  The three directory trees of the             *)
(* configuration are three variables; the external workflow engine is an   *)
(* opaque process whose exit status and effects on disk are chosen         *)
(* nondeterministically.                                                   *)
(***************************************************************************)
EXTENDS Integers, Sequences, FiniteSets, TLC

(***************************************************************************)
(* Bounds of the model.                                                    *)
(***************************************************************************)
\* number of discovery passes explored
MaxPasses == 2
\* last reading of the clock, in ticks
MaxClock == 2
\* clock ticks per second: datetime.now() is finer than the '%S' of strftime
TicksPerSecond == 2

(***************************************************************************)
(* Text helpers.                                                           *)
(***************************************************************************)
Digits == {"0", "1", "2", "3", "4", "5", "6", "7", "8", "9"}
UpperCase == {"A", "B", "C", "D", "E", "F", "G", "H", "I", "J", "K", "L", "M",
              "N", "O", "P", "Q", "R", "S", "T", "U", "V", "W", "X", "Y", "Z"}
LowerCase == {"a", "b", "c", "d", "e", "f", "g", "h", "i", "j", "k", "l", "m",
              "n", "o", "p", "q", "r", "s", "t", "u", "v", "w", "x", "y", "z"}
\* \w of the re module, restricted to ASCII
WordChars == Digits \cup UpperCase \cup LowerCase \cup {"_"}

AllIn(s, lo, hi, chars) == \A i \in lo..hi : s[i] \in chars

\* '$' matches at the end of the string and just before a final newline
BeforeDollar(s) ==
    IF Len(s) > 0 /\ s[Len(s)] = "\n" THEN SubSeq(s, 1, Len(s) - 1) ELSE s

\* "\d{8}_\d{4}_X\d_[A-Z0-9]{8}_[a-z0-9]{8}$" under re.match
gridion_run_id_regex(name) ==
    LET s == BeforeDollar(name) IN
    /\ Len(s) = 34
    /\ AllIn(s, 1, 8, Digits)
    /\ s[9] = "_"
    /\ AllIn(s, 10, 13, Digits)
    /\ s[14] = "_"
    /\ s[15] = "X"
    /\ s[16] \in Digits
    /\ s[17] = "_"
    /\ AllIn(s, 18, 25, UpperCase \cup Digits)
    /\ s[26] = "_"
    /\ AllIn(s, 27, 34, LowerCase \cup Digits)

\* "\d{8}_\d{4}_P2S_\d+-\w_[A-Z0-9]{8}_[a-z0-9]{8}$" under re.match; the
\* part after \d+ has a fixed length, so \d+ is what is left in between
promethion_run_id_regex(name) ==
    LET s == BeforeDollar(name)
        n == Len(s)
    IN
    /\ n >= 39
    /\ AllIn(s, 1, 8, Digits)
    /\ s[9] = "_"
    /\ AllIn(s, 10, 13, Digits)
    /\ s[14] = "_"
    /\ SubSeq(s, 15, 17) = <<"P", "2", "S">>
    /\ s[18] = "_"
    /\ AllIn(s, 19, n - 20, Digits)
    /\ s[n - 19] = "-"
    /\ s[n - 18] \in WordChars
    /\ s[n - 17] = "_"
    /\ AllIn(s, n - 16, n - 9, UpperCase \cup Digits)
    /\ s[n - 8] = "_"
    /\ AllIn(s, n - 7, n, LowerCase \cup Digits)

RECURSIVE split(_, _)
\* str.split(sep) for a one-character separator
split(s, sep) ==
    IF \E i \in 1..Len(s) : s[i] = sep
    THEN LET i == CHOOSE j \in 1..Len(s) :
                     s[j] = sep /\ \A k \in 1..(j - 1) : s[k] # sep
         IN <<SubSeq(s, 1, i - 1)>> \o split(SubSeq(s, i + 1, Len(s)), sep)
    ELSE <<s>>

\* str.replace(old, new) for one-character strings
replace(s, old, new) == [i \in 1..Len(s) |-> IF s[i] = old THEN new ELSE s[i]]

RECURSIVE join(_, _)
\* sep.join(parts)
join(sep, parts) ==
    IF Len(parts) = 0 THEN <<>>
    ELSE IF Len(parts) = 1 THEN parts[1]
    ELSE parts[1] \o <<sep>> \o join(sep, Tail(parts))

\* a slice [0:n] of a list
slice_to(parts, n) == SubSeq(parts, 1, IF Len(parts) < n THEN Len(parts) ELSE n)

DecimalDigits == <<"0", "1", "2", "3", "4", "5", "6", "7", "8", "9">>

RECURSIVE decimal(_)
\* the decimal digits of a natural number
decimal(n) ==
    IF n < 10 THEN <<DecimalDigits[n + 1]>>
    ELSE decimal(n \div 10) \o <<DecimalDigits[(n % 10) + 1]>>

\* str(value): text stays as it is, a number becomes its digits
str(v) == IF v.type = "int" THEN decimal(v.value) ELSE v.value

\* strftime('%Y%m%d%H%M%S'): a clock reading cut down to whole seconds
strftime(t) == t \div TicksPerSecond

(***************************************************************************)
(* The directory names of the model.                                       *)
(***************************************************************************)
Date8 == <<"2", "0", "2", "3", "0", "1", "0", "1">>
Time4 == <<"1", "2", "0", "0">>
Upper8 == <<"A", "B", "C", "D", "E", "F", "G", "H">>
Lower8 == <<"a", "b", "c", "d", "e", "f", "g", "h">>
Tail8 == <<"_">> \o Upper8 \o <<"_">> \o Lower8

\* 20230101_1200_X1_ABCDEFGH_abcdefgh
GridionRun == Date8 \o <<"_">> \o Time4 \o <<"_", "X", "1">> \o Tail8
\* 20230101_1200_P2S_00339-1_ABCDEFGH_abcdefgh
PromethionRun ==
    Date8 \o <<"_">> \o Time4 \o <<"_", "P", "2", "S", "_">>
          \o <<"0", "0", "3", "3", "9", "-", "1">> \o Tail8
\* 20230101_1200_X2_ABCDEFGH_abcdefgh, a regular file of that name
GridionFile == Date8 \o <<"_">> \o Time4 \o <<"_", "X", "2">> \o Tail8
\* 20230101_1200_X1_ABCDEFGH_abcdefgh.bak
BackupDir == GridionRun \o <<".", "b", "a", "k">>

Names == {GridionRun, PromethionRun, GridionFile, BackupDir}

\* the parent directories explored: each holds one well-named run directory
Directories == { {BackupDir, GridionFile, r} : r \in {GridionRun, PromethionRun} }

\* the order in which a directory lists its entries
DirectoryOrder == <<BackupDir, GridionFile, GridionRun, PromethionRun>>

\* what kind of entry each name is: the parent directory is only read
IsDir(name) == name # GridionFile

(***************************************************************************)
(* Configuration.                                                          *)
(***************************************************************************)
\* configured values: null, text, or a number
Null == [type |-> "null"]
Text(chars) == [type |-> "str", value |-> chars]
Number(n) == [type |-> "int", value |-> n]

\* o/q_c at 0.1.2 and o/t at 1.0; pipeline_parameters in the order of the dict
Pipelines ==
    << [pipeline_name |-> <<"o", "/", "q", "_", "c">>,
        pipeline_version |-> <<"0", ".", "1", ".", "2">>,
        pipeline_parameters |->
            << [flag |-> "fastq_input", value |-> Null],
               [flag |-> "outdir", value |-> Null] >>],
       [pipeline_name |-> <<"o", "/", "t">>,
        pipeline_version |-> <<"1", ".", "0">>,
        pipeline_parameters |->
            << [flag |-> "fastq_input", value |-> Text(<<"/", "x">>)],
               [flag |-> "outdir", value |-> Null],
               [flag |-> "threads", value |-> Number(16)] >>] >>

\* the configurations explored: excluded_runs absent, or naming a run
Configs ==
    { [pipelines |-> Pipelines],
      [pipelines |-> Pipelines, excluded_runs |-> {PromethionRun}] }

VARIABLES
    config,                 \* the application config, fixed for a behaviour
    fastq_by_run_dir,       \* parent tree: entry name -> has symlinks_complete.json
    analysis_output_dir,    \* output tree: the set of paths that exist
    analysis_complete_json, \* output tree: content of each completion marker
    analysis_work_dir,      \* work tree: the set of work directories that exist
    now,                    \* the clock, in ticks
    pc,                     \* "idle", "scanning", "yielded", "analyzing", "returned"
    pass,                   \* number of discovery passes started
    check_symlinks_complete,\* the parameter of the current pass
    subdirs,                \* entries the current pass has not reached yet
    subdir,                 \* the entry examined last
    conditions_checked,     \* the conditions computed for it
    yielded,                \* what find_run_dirs yielded last
    run,                    \* the run descriptor analyze_run works on
    pipeline_index,         \* the pipeline analyze_run is at
    logged,                 \* the events logged by the last step
    attempts,               \* the attempts of the current analyze_run call
    launches,               \* (run, pipeline) -> calls of subprocess.run
    ready_count,            \* run -> times a pass of scan yielded it as ready
    exited_zero,            \* (run, output directory) whose process exited 0
    exited_nonzero,         \* (run, output directory) whose process exited non-zero
    work_dirs_given,        \* the work directory paths given to attempts so far
    collected,              \* pass -> what a caller that only collects was handed
    other                   \* the locals of a second orchestrator, when there is one

vars == <<config, fastq_by_run_dir, analysis_output_dir, analysis_complete_json,
          analysis_work_dir, now, pc, pass, check_symlinks_complete, subdirs,
          subdir, conditions_checked, yielded, run, pipeline_index, logged,
          attempts, launches, ready_count, exited_zero, exited_nonzero,
          work_dirs_given, collected, other>>

fs_vars == <<fastq_by_run_dir, analysis_output_dir, analysis_complete_json,
             analysis_work_dir>>
scan_vars == <<pass, check_symlinks_complete, subdirs, subdir,
               conditions_checked, yielded>>
call_vars == <<run, pipeline_index, attempts>>
hist_vars == <<launches, ready_count, exited_zero, exited_nonzero,
               work_dirs_given>>
aside_vars == <<collected, other>>

None == <<>>

\* a dict with one more key
dict_set(d, k, v) == [x \in DOMAIN d \cup {k} |-> IF x = k THEN v ELSE d[x]]

event(type, id) == [event_type |-> type, subject |-> id]

(***************************************************************************)
(* Run discovery.                                                          *)
(***************************************************************************)
RECURSIVE in_some_order(_)
\* the names of a set, one after the other
in_some_order(names) ==
    IF names = {} THEN <<>>
    ELSE LET name == CHOOSE n \in names : TRUE
         IN <<name>> \o in_some_order(names \ {name})

\* os.scandir(fastq_by_run_dir): the entries of the parent directory
scandir ==
    LET present(name) == name \in DOMAIN fastq_by_run_dir
    IN SelectSeq(DirectoryOrder, present)
           \o in_some_order(DOMAIN fastq_by_run_dir \ Names)

\* os.path.exists(os.path.join(subdir, 'symlinks_complete.json'))
symlinks_complete(name) == IsDir(name) /\ fastq_by_run_dir[name]

\* a check of the completion markers of the run instead of its entry
analysis_not_completed(run_id) ==
    \A path \in DOMAIN analysis_complete_json : path[1] # run_id

\* no check of the output tree at all
analysis_never_initiated(run_id) == TRUE

\* a check that also sees a run another orchestrator has in hand
analysis_not_in_hand(run_id) ==
    /\ <<run_id>> \notin analysis_output_dir
    /\ ~(other[1] \in {"yielded", "analyzing"} /\ other[5] = run_id)

\* not os.path.exists(os.path.join(config['analysis_output_dir'], run_id))
analysis_not_already_initiated(run_id) == <<run_id>> \notin analysis_output_dir

\* excluded_runs is never consulted
never_excluded(run_id) == TRUE

not_excluded(run_id) ==
    IF "excluded_runs" \in DOMAIN config
    THEN run_id \notin config["excluded_runs"]
    ELSE TRUE

\* the elif branch is missing
instrument_type_gridion_only(run_id) ==
    IF gridion_run_id_regex(run_id) THEN "gridion" ELSE "unknown"

instrument_type(run_id) ==
    IF gridion_run_id_regex(run_id) THEN "gridion"
    ELSE IF promethion_run_id_regex(run_id) THEN "promethion"
    ELSE "unknown"

\* the four conditions only: check_symlinks_complete is ignored
conditions_without_symlinks(name, check) ==
    [k \in {"is_directory", "matches_nanopore_run_id_format",
            "analysis_not_already_initiated", "not_excluded"} |->
        CASE k = "is_directory" -> IsDir(name)
          [] k = "matches_nanopore_run_id_format" ->
                gridion_run_id_regex(name) \/ promethion_run_id_regex(name)
          [] k = "analysis_not_already_initiated" ->
                analysis_not_already_initiated(name)
          [] k = "not_excluded" -> not_excluded(name)]

conditions(name, check) ==
    LET base ==
            [k \in {"is_directory", "matches_nanopore_run_id_format",
                    "analysis_not_already_initiated", "not_excluded"} |->
                CASE k = "is_directory" -> IsDir(name)
                  [] k = "matches_nanopore_run_id_format" ->
                        gridion_run_id_regex(name) \/ promethion_run_id_regex(name)
                  [] k = "analysis_not_already_initiated" ->
                        analysis_not_already_initiated(name)
                  [] k = "not_excluded" -> not_excluded(name)]
    IN IF check THEN dict_set(base, "symlinks_complete", symlinks_complete(name))
       ELSE base

\* any() in the place of all()
any(d) == \E k \in DOMAIN d : d[k]

all(d) == \A k \in DOMAIN d : d[k]

\* os.path.abspath(subdir.path)
run_dir_path(name) == <<"fastq_by_run_dir", name>>

ready_run(name) ==
    [k \in {"run_dir", "sequencing_run_id", "instrument_type"} |->
        CASE k = "run_dir" -> run_dir_path(name)
          [] k = "sequencing_run_id" -> name
          [] k = "instrument_type" -> instrument_type(name)]

\* find_run_dirs is called: os.scandir lists the parent directory
find_run_dirs_begin(check) ==
    /\ pc = "idle"
    /\ pass < MaxPasses
    /\ pass' = pass + 1
    /\ check_symlinks_complete' = check
    /\ subdirs' = scandir
    /\ pc' = "scanning"
    /\ UNCHANGED <<subdir, conditions_checked, yielded>>

\* scan(config): logs scan_start and iterates find_run_dirs(config)
scan ==
    /\ find_run_dirs_begin(TRUE)
    /\ logged' = <<event("scan_start", None)>>
    /\ UNCHANGED <<config, fs_vars, now, call_vars, hist_vars, aside_vars>>

\* find_run_dirs(config, check_symlinks_complete=False), called directly
find_run_dirs_unchecked ==
    /\ find_run_dirs_begin(FALSE)
    /\ logged' = <<>>
    /\ UNCHANGED <<config, fs_vars, now, call_vars, hist_vars, aside_vars>>

\* an iterator that never advances
remaining_all(entries) == entries

\* for subdir in subdirs: the entries the iterator has not handed out yet
remaining(entries) == Tail(entries)

\* a turn that claims the run it finds ready: it creates its output entry
find_run_dirs_next_claiming ==
    /\ pc = "scanning"
    /\ subdirs # <<>>
    /\ LET name == Head(subdirs)
           checked == conditions(name, check_symlinks_complete)
       IN
        /\ subdirs' = remaining(subdirs)
        /\ subdir' = name
        /\ conditions_checked' = checked
        /\ IF all(checked)
           THEN /\ yielded' = ready_run(name)
                /\ logged' = <<event("run_directory_found", name)>>
                /\ analysis_output_dir' = analysis_output_dir \cup {<<name>>}
                /\ ready_count' =
                      IF check_symlinks_complete
                      THEN [ready_count EXCEPT ![name] = @ + 1]
                      ELSE ready_count
           ELSE /\ yielded' = None
                /\ logged' = <<event("directory_skipped", name)>>
                /\ UNCHANGED <<ready_count, analysis_output_dir>>
    /\ pc' = "yielded"
    /\ UNCHANGED <<config, fastq_by_run_dir, analysis_complete_json,
                   analysis_work_dir, now, pass, check_symlinks_complete,
                   call_vars, launches, exited_zero, exited_nonzero,
                   work_dirs_given, aside_vars>>

\* one turn of the loop over subdirs, up to its yield
find_run_dirs_next ==
    /\ pc = "scanning"
    /\ subdirs # <<>>
    /\ LET name == Head(subdirs)
           checked == conditions(name, check_symlinks_complete)
       IN
        /\ subdirs' = remaining(subdirs)
        /\ subdir' = name
        /\ conditions_checked' = checked
        /\ IF all(checked)
           THEN /\ yielded' = ready_run(name)
                /\ logged' = <<event("run_directory_found", name)>>
                /\ ready_count' =
                      IF check_symlinks_complete
                      THEN [ready_count EXCEPT ![name] = @ + 1]
                      ELSE ready_count
           ELSE /\ yielded' = None
                /\ logged' = <<event("directory_skipped", name)>>
                /\ UNCHANGED ready_count
    /\ pc' = "yielded"
    /\ UNCHANGED <<config, fs_vars, now, pass, check_symlinks_complete,
                   call_vars, launches, exited_zero, exited_nonzero,
                   work_dirs_given, aside_vars>>

\* the generator is resumed: the locals of the last turn are dead
resumed ==
    /\ pc' = "scanning"
    /\ subdir' = None
    /\ conditions_checked' = <<>>
    /\ yielded' = None
    /\ run' = None
    /\ pipeline_index' = 1
    /\ attempts' = <<>>
    /\ logged' = <<>>
    /\ UNCHANGED <<config, fs_vars, now, pass, check_symlinks_complete, subdirs,
                   hist_vars>>

\* the caller takes a result it does not dispatch and asks for the next
\* one: a skipped placeholder, or any result of a pass not made by scan
skip ==
    /\ pc = "yielded"
    /\ yielded = None \/ ~check_symlinks_complete
    /\ resumed
    /\ UNCHANGED aside_vars

\* the loop over subdirs is exhausted
find_run_dirs_end ==
    /\ pc = "scanning"
    /\ subdirs = <<>>
    /\ pc' = "idle"
    /\ logged' = <<>>
    /\ UNCHANGED <<config, fs_vars, now, scan_vars, call_vars, hist_vars,
                   aside_vars>>

\* what a pass has handed out so far, with the trees it was made over
collected_in(p) ==
    IF p \in DOMAIN collected THEN collected[p].results ELSE <<>>

\* a caller takes the result, keeps it and asks for the next one:
\* list(find_run_dirs(config)), with nothing dispatched
collect ==
    /\ pc = "yielded"
    /\ collected' =
          dict_set(collected, pass,
                   [check |-> check_symlinks_complete,
                    parent |-> fastq_by_run_dir,
                    output |-> analysis_output_dir,
                    results |-> Append(collected_in(pass), yielded)])
    /\ resumed
    /\ UNCHANGED other

(***************************************************************************)
(* Analysis dispatch.                                                      *)
(***************************************************************************)
\* pipeline['pipeline_name'].split('/')[1].replace('_', '-')
pipeline_short_name(pipeline) ==
    replace(split(pipeline.pipeline_name, "/")[2], "_", "-")

\* '.'.join(pipeline['pipeline_version'].split('.')[0:2])
pipeline_minor_version(pipeline) ==
    join(".", slice_to(split(pipeline.pipeline_version, "."), 2))

\* the last component of analysis_output_dir (the local of analyze_run)
output_dir_name(pipeline) ==
    pipeline_short_name(pipeline) \o <<"-">> \o pipeline_minor_version(pipeline)
        \o <<"-", "o", "u", "t", "p", "u", "t">>

\* os.path.join(base_analysis_outdir, analysis_run_id, <name>-<minor>-output),
\* relative to the output root
output_dir_path(run_id, pipeline) == <<run_id, output_dir_name(pipeline)>>

analysis_complete_path(run_id, pipeline) ==
    output_dir_path(run_id, pipeline) \o <<"analysis_complete.json">>

\* 'work-' + analysis_run_id + '-' + analysis_timestamp, under the work root
work_dir_path(run_id, t) == <<"work", run_id, strftime(t)>>

\* a failure ends the loop over the pipelines
next_pipeline_index_or_break(i, outcome) ==
    IF outcome = "completed" THEN i + 1 ELSE Len(Pipelines) + 1

\* the '--<flag> <value>' pairs of the command line: a null value is read
\* off the run descriptor, any other is taken from the configuration
parameter_arguments(descriptor, pipeline_parameters) ==
    [k \in 1..(2 * Len(pipeline_parameters)) |->
        LET parameter == pipeline_parameters[(k + 1) \div 2] IN
        IF k % 2 = 1 THEN <<"-", "-", parameter.flag>>
        ELSE IF parameter.value.type = "null" THEN descriptor[parameter.flag]
        ELSE str(parameter.value)]

\* the command line of one pipeline
pipeline_command(descriptor, pipeline, work) ==
    LET run_id == descriptor["sequencing_run_id"]
        trace == <<"analysis_output_dir">> \o output_dir_path(run_id, pipeline)
                    \o <<run_id \o <<"_trace.tsv">>>>
        notification ==
            IF "send_notification_emails" \in DOMAIN config
                  /\ config["send_notification_emails"]
            THEN <<"-with-notification",
                   IF "notification_email_addresses" \in DOMAIN config
                   THEN join(",", config["notification_email_addresses"])
                   ELSE <<>> >>
            ELSE <<>>
    IN <<"nextflow", "run", pipeline.pipeline_name,
         "-r", pipeline.pipeline_version,
         "-profile", "conda",
         "--cache", "~/.conda/envs",
         "-work-dir", work,
         "-with-trace", trace>>
       \o notification
       \o parameter_arguments(descriptor, pipeline.pipeline_parameters)

\* the for loop goes on to the next pipeline after the try statement,
\* whichever branch of it was taken
next_pipeline_index(i, outcome) == i + 1

\* analyze_run is entered with the ready run that scan yielded
analyze_run_begin ==
    /\ pc = "yielded"
    /\ yielded # None
    /\ check_symlinks_complete
    /\ run' = yielded
    /\ pipeline_index' = 1
    /\ attempts' = <<>>
    /\ pc' = IF Len(config["pipelines"]) = 0 THEN "returned" ELSE "analyzing"
    /\ logged' = <<>>
    /\ UNCHANGED <<config, fs_vars, now, scan_vars, hist_vars, aside_vars>>

\* the paths are filled in only when the descriptor has none yet
run_with_paths_kept(descriptor, out) ==
    IF "outdir" \in DOMAIN descriptor THEN descriptor
    ELSE dict_set(dict_set(descriptor, "fastq_input", descriptor["run_dir"]),
                  "outdir", <<"analysis_output_dir">> \o out)

\* run['fastq_input'] = run['run_dir']; run['outdir'] = analysis_output_dir
run_with_paths(descriptor, out) ==
    dict_set(dict_set(descriptor, "fastq_input", descriptor["run_dir"]),
             "outdir", <<"analysis_output_dir">> \o out)

\* what every turn of the loop over the pipelines does, whatever the outcome
attempt(outcome, dt, tree_after, work_after, marker_written) ==
    LET pipeline == config["pipelines"][pipeline_index]
        run_id == run["sequencing_run_id"]
        out == output_dir_path(run_id, pipeline)
        work == work_dir_path(run_id, now)
        next == next_pipeline_index(pipeline_index, outcome)
        descriptor == run_with_paths(run, out)
    IN
    /\ run' = descriptor
    /\ now' = now + dt
    /\ analysis_output_dir' = tree_after
    /\ analysis_work_dir' = work_after
    /\ attempts' = Append(attempts,
            [pipeline |-> pipeline_index,
             outcome |-> outcome,
             pipeline_command |-> pipeline_command(descriptor, pipeline, work),
             output_dir |-> out,
             work_dir |-> work,
             timestamp_analysis_start |-> now,
             marker_written |-> marker_written,
             work_dir_left |-> work \in work_after])
    /\ launches' = [launches EXCEPT ![<<run_id, pipeline_index>>] = @ + 1]
    /\ work_dirs_given' = work_dirs_given \cup {work}
    /\ pipeline_index' = next
    /\ pc' = IF next > Len(config["pipelines"]) THEN "returned" ELSE "analyzing"
    /\ UNCHANGED <<config, fastq_by_run_dir, scan_vars, ready_count, aside_vars>>

\* what the external process may leave in the output tree: nothing, the
\* directory of the run, or the output directory of the pipeline inside it
process_output(run_id, pipeline) ==
    { {}, {<<run_id>>}, {<<run_id>>, output_dir_path(run_id, pipeline)} }

\* subprocess.run raises OSError: the process could not be started
analyze_run_not_started ==
    /\ pc = "analyzing"
    /\ attempt("not_started", 0, analysis_output_dir, analysis_work_dir, FALSE)
    /\ logged' = <<event("analysis_started", run["sequencing_run_id"]),
                   event("delete_analysis_work_dir_failed", run["sequencing_run_id"])>>
    /\ UNCHANGED <<analysis_complete_json, exited_zero, exited_nonzero>>

\* the marker is written whatever the exit status
analyze_run_failed_with_marker ==
    /\ pc = "analyzing"
    /\ LET pipeline == config["pipelines"][pipeline_index]
           run_id == run["sequencing_run_id"]
           out == output_dir_path(run_id, pipeline)
       IN \E dt \in 0..1, made_work \in BOOLEAN,
             made \in process_output(run_id, pipeline) :
            /\ now + dt <= MaxClock
            /\ out \in analysis_output_dir \cup made
            /\ attempt("failed", dt,
                       analysis_output_dir \cup made
                           \cup {analysis_complete_path(run_id, pipeline)},
                       IF made_work
                       THEN analysis_work_dir \cup {work_dir_path(run_id, now)}
                       ELSE analysis_work_dir,
                       TRUE)
            /\ analysis_complete_json' =
                  dict_set(analysis_complete_json, out,
                           [timestamp_analysis_start |-> now,
                            timestamp_analysis_complete |-> now + dt])
            /\ exited_nonzero' = exited_nonzero \cup {out}
            /\ logged' = <<event("analysis_started", run_id),
                           event("analysis_failed", run_id)>>
    /\ UNCHANGED exited_zero

\* subprocess.run raises CalledProcessError: the process exited non-zero
analyze_run_failed ==
    /\ pc = "analyzing"
    /\ LET pipeline == config["pipelines"][pipeline_index]
           run_id == run["sequencing_run_id"]
       IN \E dt \in 0..1, made_work \in BOOLEAN,
             made \in process_output(run_id, pipeline) :
            /\ now + dt <= MaxClock
            /\ attempt("failed", dt, analysis_output_dir \cup made,
                       IF made_work
                       THEN analysis_work_dir \cup {work_dir_path(run_id, now)}
                       ELSE analysis_work_dir,
                       FALSE)
            /\ exited_nonzero' =
                  exited_nonzero \cup {output_dir_path(run_id, pipeline)}
            /\ logged' = <<event("analysis_started", run_id),
                           event("analysis_failed", run_id)>>
    /\ UNCHANGED <<analysis_complete_json, exited_zero>>

\* a deletion of every work directory of the run
rmtree_of_run(tree, path, removed) ==
    IF removed THEN { w \in tree : w[2] # path[2] } ELSE tree

\* shutil.rmtree(path, ignore_errors=True): the directory goes, or it
\* stays when the deletion fails, and nothing is raised either way
rmtree(tree, path, removed) == IF removed THEN tree \ {path} ELSE tree

\* the process exited 0 and open() found the output directory: the marker
\* is written and shutil.rmtree(ignore_errors=True) is called
analyze_run_completed ==
    /\ pc = "analyzing"
    /\ LET pipeline == config["pipelines"][pipeline_index]
           run_id == run["sequencing_run_id"]
           out == output_dir_path(run_id, pipeline)
           work == work_dir_path(run_id, now)
       IN \E dt \in 0..1, made_work \in BOOLEAN, removed \in BOOLEAN,
             made \in process_output(run_id, pipeline) :
            LET tree == analysis_output_dir \cup made
                work_tree == IF made_work THEN analysis_work_dir \cup {work}
                             ELSE analysis_work_dir
            IN
            /\ now + dt <= MaxClock
            /\ out \in tree
            /\ attempt("completed", dt,
                       tree \cup {analysis_complete_path(run_id, pipeline)},
                       rmtree(work_tree, work, removed),
                       TRUE)
            /\ analysis_complete_json' =
                  dict_set(analysis_complete_json, out,
                           [timestamp_analysis_start |-> now,
                            timestamp_analysis_complete |-> now + dt])
            /\ exited_zero' = exited_zero \cup {out}
            /\ logged' = <<event("analysis_started", run_id),
                           event("analysis_completed", run_id),
                           event("analysis_work_dir_deleted", run_id)>>
    /\ UNCHANGED exited_nonzero

\* the process exited 0 and open() raises OSError: no output directory
analyze_run_marker_not_written ==
    /\ pc = "analyzing"
    /\ LET pipeline == config["pipelines"][pipeline_index]
           run_id == run["sequencing_run_id"]
           out == output_dir_path(run_id, pipeline)
           work == work_dir_path(run_id, now)
       IN \E dt \in 0..1, made_work \in BOOLEAN,
             made \in process_output(run_id, pipeline) :
            LET tree == analysis_output_dir \cup made IN
            /\ now + dt <= MaxClock
            /\ out \notin tree
            /\ attempt("marker_not_written", dt, tree,
                       IF made_work THEN analysis_work_dir \cup {work}
                       ELSE analysis_work_dir,
                       FALSE)
            /\ exited_zero' = exited_zero \cup {out}
            /\ logged' = <<event("analysis_started", run_id),
                           event("delete_analysis_work_dir_failed", run_id)>>
    /\ UNCHANGED <<analysis_complete_json, exited_nonzero>>

\* analyze_run returns and the caller asks for the next result
analyze_run_return ==
    /\ pc = "returned"
    /\ resumed
    /\ UNCHANGED aside_vars

(***************************************************************************)
(* The surroundings: the upstream linking process.                         *)
(***************************************************************************)
\* the upstream process finishes a run directory
symlinks_written ==
    /\ pc = "idle"
    /\ \E name \in DOMAIN fastq_by_run_dir :
        /\ IsDir(name)
        /\ ~fastq_by_run_dir[name]
        /\ fastq_by_run_dir' = [fastq_by_run_dir EXCEPT ![name] = TRUE]
    /\ UNCHANGED <<config, analysis_output_dir, analysis_complete_json,
                   analysis_work_dir, now, pc, scan_vars, call_vars, logged,
                   hist_vars, aside_vars>>

(***************************************************************************)
(* The specification.                                                      *)
(***************************************************************************)
\* the locals of an orchestrator that has not started a pass yet
locals == <<pc, pass, check_symlinks_complete, subdirs, subdir,
            conditions_checked, yielded, run, pipeline_index, attempts>>
fresh_locals == <<"idle", 0, TRUE, <<>>, None, <<>>, None, None, 1, <<>>>>

\* orchestrators between two passes, made passes behind them, with nothing
\* launched or collected yet
Started(names, made) ==
    /\ analysis_complete_json = <<>>
    /\ analysis_work_dir = {}
    /\ now = 0
    /\ pc = "idle"
    /\ pass = made
    /\ check_symlinks_complete = TRUE
    /\ subdirs = <<>>
    /\ subdir = None
    /\ conditions_checked = <<>>
    /\ yielded = None
    /\ run = None
    /\ pipeline_index = 1
    /\ attempts = <<>>
    /\ logged = <<>>
    /\ launches = [x \in names \X (1..Len(Pipelines)) |-> 0]
    /\ ready_count = [name \in names |-> 0]
    /\ exited_zero = {}
    /\ exited_nonzero = {}
    /\ work_dirs_given = {}
    /\ collected = <<>>
    /\ other = [fresh_locals EXCEPT ![2] = made]

Init ==
    /\ config \in Configs
    /\ \E entries \in Directories :
        /\ fastq_by_run_dir = [name \in entries |-> name = BackupDir]
        /\ analysis_output_dir \in
              {{}} \cup { {<<r>>} : r \in entries \ {BackupDir, GridionFile} }
    /\ Started(Names, 0)

Next ==
    \/ scan
    \/ find_run_dirs_unchecked
    \/ find_run_dirs_next
    \/ skip
    \/ find_run_dirs_end
    \/ analyze_run_begin
    \/ analyze_run_not_started
    \/ analyze_run_failed
    \/ analyze_run_marker_not_written
    \/ analyze_run_completed
    \/ analyze_run_return
    \/ symlinks_written

Spec == Init /\ [][Next]_vars

(***************************************************************************)
(* Discovery alone: find_run_dirs iterated by a caller that dispatches     *)
(* nothing, over directories of one regular file and one entry of any name.*)
(***************************************************************************)
\* the parts a name is put together from, matching and not
TestPrefixes == {<<>>, <<"x">>}
TestDates == {Date8, <<"2", "0", "2", "3", "0", "1", "0">>,
              <<"2", "0", "2", "3", "0", "1", "0", "a">>}
TestInstruments ==
    {<<"X", "1">>, <<"X", "A">>, <<"Y", "1">>, <<"X", "1", "0">>,
     <<"P", "2", "S", "_", "0", "0", "3", "3", "9", "-", "1">>,
     <<"P", "2", "S", "_", "7", "-", "_">>,
     <<"P", "2", "S", "_", "-", "1">>,
     <<"P", "2", "S", "_", "7", "-", ".">>,
     <<"P", "2", "_", "7", "-", "1">>}
TestTails ==
    {Tail8,
     <<"_", "A", "1", "C", "2", "E", "3", "G", "4", "_">> \o
         <<"a", "1", "c", "2", "e", "3", "g", "4">>,
     <<"_">> \o Lower8 \o <<"_">> \o Lower8,
     <<"_">> \o Upper8 \o <<"_">> \o Upper8,
     Tail8 \o <<"\n">>,
     Tail8 \o <<".", "b", "a", "k">>,
     <<"_">> \o Upper8 \o <<"_", "a", "b", "c", "d", "e", "f", "g">>}
TestNames ==
    { prefix \o date \o <<"_">> \o Time4 \o <<"_">> \o instrument \o tail :
        prefix \in TestPrefixes, date \in TestDates,
        instrument \in TestInstruments, tail \in TestTails }

(***************************************************************************)
(* Two orchestrators over the same trees: the variables hold the locals of *)
(* the one that is running, other those of the one that is waiting.        *)
(***************************************************************************)
\* the operating system lets the other orchestrator run: between two
\* passes, or between the yield of a ready run and its dispatch, where the
\* check of the output tree and the launch come apart
context_switch ==
    /\ pc = "idle" \/ (pc = "yielded" /\ yielded # None)
    /\ pc' = other[1]
    /\ pass' = other[2]
    /\ check_symlinks_complete' = other[3]
    /\ subdirs' = other[4]
    /\ subdir' = other[5]
    /\ conditions_checked' = other[6]
    /\ yielded' = other[7]
    /\ run' = other[8]
    /\ pipeline_index' = other[9]
    /\ attempts' = other[10]
    /\ other' = locals
    /\ logged' = <<>>
    /\ UNCHANGED <<config, fs_vars, now, hist_vars, collected>>

InitTwo ==
    /\ config \in Configs
    /\ \E entries \in Directories :
        /\ fastq_by_run_dir = [name \in entries |-> TRUE]
        /\ analysis_output_dir = {}
    /\ Started(Names, MaxPasses - 1)

NextTwo ==
    \/ scan
    \/ find_run_dirs_next
    \/ skip
    \/ find_run_dirs_end
    \/ analyze_run_begin
    \/ analyze_run_not_started
    \/ analyze_run_failed
    \/ analyze_run_marker_not_written
    \/ analyze_run_completed
    \/ analyze_run_return
    \/ context_switch

SpecTwo == InitTwo /\ [][NextTwo]_vars

(***************************************************************************)
(* The orchestrator with its scheduling: a generator that is resumed goes  *)
(* on to its next yield or to its end, the caller takes every result, a    *)
(* call of analyze_run that has begun goes through its pipelines and       *)
(* returns, and every external process launched exits. When the next pass  *)
(* starts, and when the upstream process writes, is left open. Two passes  *)
(* are followed, over a run directory whose symlinks file is yet to come.  *)
(***************************************************************************)
InitFair ==
    /\ config = [pipelines |-> Pipelines]
    /\ fastq_by_run_dir =
          [name \in {BackupDir, GridionFile, GridionRun} |-> name = BackupDir]
    /\ analysis_output_dir = {}
    /\ Started(Names, MaxPasses - 2)

NextFair ==
    \/ scan
    \/ find_run_dirs_next
    \/ skip
    \/ find_run_dirs_end
    \/ analyze_run_begin
    \/ analyze_run_not_started
    \/ analyze_run_failed
    \/ analyze_run_marker_not_written
    \/ analyze_run_completed
    \/ analyze_run_return
    \/ symlinks_written

Fairness ==
    /\ WF_vars(find_run_dirs_next)
    /\ WF_vars(skip)
    /\ WF_vars(find_run_dirs_end)
    /\ WF_vars(analyze_run_begin)
    /\ WF_vars(analyze_run_not_started \/ analyze_run_failed
                   \/ analyze_run_marker_not_written \/ analyze_run_completed)
    /\ WF_vars(analyze_run_return)

SpecFair == InitFair /\ [][NextFair]_vars /\ Fairness

InitDiscovery ==
    /\ config \in Configs
    /\ \E name \in TestNames \ {GridionFile} :
        /\ fastq_by_run_dir \in [{GridionFile, name} -> BOOLEAN]
        /\ ~fastq_by_run_dir[GridionFile]
        /\ analysis_output_dir \in {{}, {<<name>>}}
        /\ Started({GridionFile, name}, 0)

NextDiscovery ==
    \/ scan
    \/ find_run_dirs_unchecked
    \/ find_run_dirs_next
    \/ collect
    \/ find_run_dirs_end
    \/ symlinks_written

SpecDiscovery == InitDiscovery /\ [][NextDiscovery]_vars

(***************************************************************************)
(* Properties.                                                             *)
(***************************************************************************)
\* the conditions of find_run_dirs, read off the trees and the config
is_directory_in_tree(name) == IsDir(name)
name_has_run_id_format(name) ==
    gridion_run_id_regex(name) \/ promethion_run_id_regex(name)
entry_in_output_tree(name) == <<name>> \in analysis_output_dir
listed_as_excluded(name) ==
    "excluded_runs" \in DOMAIN config /\ name \in config["excluded_runs"]
has_symlinks_file(name) == fastq_by_run_dir[name]

\* find_run_dirs has just yielded its result for subdir
just_yielded == pc = "yielded"
yielded_ready == just_yielded /\ yielded # None
yielded_skipped == just_yielded /\ yielded = None

\* an attempt of analyze_run has just finished
attempt_finished ==
    /\ pc \in {"analyzing", "returned"}
    /\ Len(attempts) > 0
    /\ Len(logged) > 0
    /\ logged[1].event_type = "analysis_started"
last_attempt == attempts[Len(attempts)]

\* pipeline i of run r is still to be attempted by the call in progress
pending(r, i) ==
    \/ yielded_ready /\ check_symlinks_complete /\ subdir = r
    \/ pc = "analyzing" /\ run["sequencing_run_id"] = r /\ i >= pipeline_index

\* C1 as stated: every pipeline is launched against a run handed to
\* analyze_run, and no (run, pipeline) pair is ever launched a second time.
C1_exactly_once ==
    /\ pc = "returned" =>
          \A i \in 1..Len(config["pipelines"]) :
              launches[<<run["sequencing_run_id"], i>>] >= 1
    /\ \A x \in DOMAIN launches : launches[x] <= 1

\* C1 amended: each pipeline is launched exactly once per time the run was
\* yielded as ready (so at least once for every run handed to analyze_run),
\* and a run is yielded as ready, hence launched again, only while no entry
\* named after it exists in the output tree.
C1_once_per_ready_yield ==
    /\ \A r \in Names, i \in 1..Len(config["pipelines"]) :
          launches[<<r, i>>] =
              IF pending(r, i) THEN ready_count[r] - 1 ELSE ready_count[r]
    /\ yielded_ready => ~entry_in_output_tree(subdir)

\* a run has been dispatched twice and both pipelines were launched twice
C1_witness ==
    /\ pc = "returned"
    /\ \A i \in 1..Len(config["pipelines"]) :
          launches[<<run["sequencing_run_id"], i>>] = 2

\* C2: find_run_dirs yields a ready descriptor of the entry if and only if
\* it is a directory, its name has a run id format, no entry of that name is
\* in the output tree, it is not excluded and, when check_symlinks_complete
\* is on, symlinks_complete.json is in it; otherwise it yields None.
C2_ready_iff_all_conditions ==
    just_yielded =>
        /\ yielded # None <=>
              /\ is_directory_in_tree(subdir)
              /\ name_has_run_id_format(subdir)
              /\ ~entry_in_output_tree(subdir)
              /\ ~listed_as_excluded(subdir)
              /\ check_symlinks_complete => has_symlinks_file(subdir)
        /\ yielded # None =>
              /\ DOMAIN yielded = {"run_dir", "sequencing_run_id", "instrument_type"}
              /\ yielded["sequencing_run_id"] = subdir

\* a directory that meets every condition of a checked pass is yielded
C2_witness ==
    /\ yielded_ready
    /\ check_symlinks_complete
    /\ has_symlinks_file(subdir)

\* C3: an entry whose name is in the output tree when it is examined is
\* never yielded as ready, whatever the other conditions and the markers.
C3_initiated_never_ready ==
    just_yielded /\ entry_in_output_tree(subdir) => yielded = None

\* a run that meets every other condition is skipped for its output entry
C3_witness ==
    /\ yielded_skipped
    /\ entry_in_output_tree(subdir)
    /\ is_directory_in_tree(subdir)
    /\ name_has_run_id_format(subdir)
    /\ ~listed_as_excluded(subdir)
    /\ has_symlinks_file(subdir)

\* C4: analyze_run attempts all the pipelines in configuration order,
\* whatever the outcome of each: when it returns there is one attempt per
\* pipeline, and the k-th attempt is of the k-th pipeline.
C4_all_pipelines_attempted ==
    /\ pc \in {"analyzing", "returned"} =>
          /\ Len(attempts) = pipeline_index - 1
          /\ \A k \in 1..Len(attempts) : attempts[k].pipeline = k
    /\ pc = "returned" => Len(attempts) = Len(config["pipelines"])

\* the second pipeline was attempted after the first could not be started
C4_witness ==
    /\ pc = "returned"
    /\ Len(attempts) = 2
    /\ attempts[1].outcome = "not_started"
    /\ attempts[2].outcome = "failed"

\* C5 as stated: once an attempt whose process exited 0 has finished,
\* analysis_complete.json with its two timestamps is in the output directory
\* of the pipeline and the work directory of the attempt is gone, whether or
\* not the process created the output directory.
C5_exit_zero_leaves_marker ==
    attempt_finished /\ last_attempt.outcome \in {"completed", "marker_not_written"} =>
        /\ last_attempt.output_dir \o <<"analysis_complete.json">>
              \in analysis_output_dir
        /\ last_attempt.output_dir \in DOMAIN analysis_complete_json
        /\ last_attempt.work_dir \notin analysis_work_dir

\* the event types logged by the last step
logged_types == [i \in 1..Len(logged) |-> logged[i].event_type]

\* C6 as stated: an attempt whose process exited non-zero writes no marker
\* and logs analysis_failed once and neither analysis_completed nor
\* analysis_work_dir_deleted, and the work directory it left is still there
\* when analyze_run has finished all the pipelines of the run.
C6_failed_attempt_keeps_work_dir ==
    /\ attempt_finished /\ last_attempt.outcome = "failed" =>
          /\ ~last_attempt.marker_written
          /\ logged_types = <<"analysis_started", "analysis_failed">>
    /\ pc = "returned" =>
          \A k \in 1..Len(attempts) :
              attempts[k].outcome = "failed" /\ attempts[k].work_dir_left =>
                  attempts[k].work_dir \in analysis_work_dir

\* C7: a completion marker is in an output directory of a run only if a
\* process launched for that run and that output directory exited 0.
C7_marker_only_after_exit_zero ==
    /\ DOMAIN analysis_complete_json \subseteq exited_zero
    /\ \A path \in analysis_output_dir :
          Len(path) = 3 =>
              /\ SubSeq(path, 1, 2) \in exited_zero
              /\ SubSeq(path, 1, 2) \in DOMAIN analysis_complete_json

\* one pipeline failed, the next one completed: the only marker is its own
C7_witness ==
    /\ pc = "returned"
    /\ Len(attempts) = 2
    /\ attempts[1].outcome = "failed"
    /\ attempts[2].outcome = "completed"
    /\ attempts[1].output_dir \in analysis_output_dir
    /\ DOMAIN analysis_complete_json = {attempts[2].output_dir}

\* a process launched for run r exited non-zero and left no marker, and the
\* directory, name, exclusion and symlinks conditions hold of r
failed_before(r) ==
    \E path \in exited_nonzero :
        path[1] = r /\ path \notin DOMAIN analysis_complete_json
eligible_but_for_output(r) ==
    /\ is_directory_in_tree(r)
    /\ name_has_run_id_format(r)
    /\ ~listed_as_excluded(r)
    /\ check_symlinks_complete => has_symlinks_file(r)

\* C8 as stated: after a failed attempt the next pass yields the run as
\* ready again, its directory, symlinks marker and exclusion being unchanged.
C8_failed_run_ready_again ==
    just_yielded /\ failed_before(subdir) /\ eligible_but_for_output(subdir) =>
        yielded # None

\* C8 amended: after a failed attempt the next pass yields the run as ready
\* again if and only if no entry named after the run is in the output tree.
C8_failed_run_ready_iff_no_output ==
    just_yielded /\ failed_before(subdir) /\ eligible_but_for_output(subdir) =>
        (yielded # None <=> ~entry_in_output_tree(subdir))

\* a later pass yields a run again after a failed attempt
C8_witness ==
    /\ yielded_ready
    /\ failed_before(subdir)
    /\ pass = 2

\* C9: a run id in config['excluded_runs'] is never yielded as ready; when
\* the key is absent the condition not_excluded is true of every entry.
C9_excluded_never_ready ==
    just_yielded =>
        /\ listed_as_excluded(subdir) => yielded = None
        /\ "excluded_runs" \notin DOMAIN config =>
              conditions_checked["not_excluded"]
        /\ conditions_checked["not_excluded"] <=> ~listed_as_excluded(subdir)

\* an excluded run that meets every other condition is skipped
C9_witness ==
    /\ yielded_skipped
    /\ listed_as_excluded(subdir)
    /\ is_directory_in_tree(subdir)
    /\ name_has_run_id_format(subdir)
    /\ ~entry_in_output_tree(subdir)
    /\ has_symlinks_file(subdir)

pass_finished(p) == p < pass \/ pc = "idle"
ready_collected(p) ==
    { collected[p].results[i]["sequencing_run_id"] :
        i \in { j \in 1..Len(collected[p].results) :
                    collected[p].results[j] # None } }
same_inputs(p, q) ==
    /\ collected[p].check = collected[q].check
    /\ collected[p].parent = collected[q].parent
    /\ collected[p].output = collected[q].output

\* C11: two passes of find_run_dirs made the same way over the same trees,
\* with nothing dispatched in between, hand out the same set of ready runs;
\* and no step of a pass changes the parent directory, the output tree or
\* the work tree: the trees only change by a step of the upstream process.
C11_discovery_idempotent_read_only ==
    /\ [](\A p, q \in DOMAIN collected :
            pass_finished(p) /\ pass_finished(q) /\ same_inputs(p, q)
                => ready_collected(p) = ready_collected(q))
    /\ [][fs_vars' # fs_vars => pc = "idle" /\ pc' = "idle"]_vars

\* two finished passes over unchanged trees, each with a ready run
C11_witness ==
    /\ pc = "idle"
    /\ pass = 2
    /\ DOMAIN collected = {1, 2}
    /\ same_inputs(1, 2)
    /\ ready_collected(1) # {}
    /\ ready_collected(2) = ready_collected(1)
    /\ Len(collected[2].results) = 2

\* the attempt a step has just made, if it made one
attempt_made == Len(attempts') = Len(attempts) + 1
made_attempt == attempts'[Len(attempts')]

\* C12: no step of a scan pass or of the dispatcher changes anything in
\* the parent directory, and, what the external process leaves aside (the
\* directory of the run, the output directory of its pipeline, its work
\* directory), the only changes to the trees are that an attempt writes
\* analysis_complete.json in the output directory of its pipeline and
\* deletes its own work directory.
C12_parent_untouched_effects_limited ==
    [][ /\ fastq_by_run_dir' # fastq_by_run_dir => pc = "idle" /\ pc' = "idle"
        /\ analysis_output_dir \subseteq analysis_output_dir'
        /\ \A path \in analysis_output_dir' \ analysis_output_dir :
              /\ attempt_made
              /\ \/ path = made_attempt.output_dir \o <<"analysis_complete.json">>
                 \/ path \in {<<made_attempt.output_dir[1]>>,
                               made_attempt.output_dir}
        /\ DOMAIN analysis_complete_json \subseteq DOMAIN analysis_complete_json'
        /\ \A out \in DOMAIN analysis_complete_json' :
              (out \notin DOMAIN analysis_complete_json
                 \/ analysis_complete_json'[out] # analysis_complete_json[out])
                => attempt_made /\ out = made_attempt.output_dir
        /\ \A w \in analysis_work_dir \ analysis_work_dir' :
              attempt_made /\ w = made_attempt.work_dir
        /\ \A w \in analysis_work_dir' \ analysis_work_dir :
              attempt_made /\ w = made_attempt.work_dir
      ]_vars

\* an attempt has written its marker and deleted its work directory while
\* the work directory of an earlier attempt on the run is still there
C12_witness ==
    /\ attempt_finished
    /\ last_attempt.outcome = "completed"
    /\ last_attempt.output_dir \in DOMAIN analysis_complete_json
    /\ ~last_attempt.work_dir_left
    /\ \E w \in analysis_work_dir :
          w[2] = last_attempt.work_dir[2] /\ w # last_attempt.work_dir

\* the call of analyze_run in progress is for run r
dispatching(r) == pc = "analyzing" /\ run["sequencing_run_id"] = r

\* C13: when a scan pass comes to a run that had an attempt exit non-zero,
\* its directory, symlinks file and exclusion being as before, the run is
\* dispatched again if and only if no entry named after it is in the output
\* tree at that moment; entries are never removed, and outside the call
\* that is in progress no pipeline of a run with such an entry is launched,
\* so once the entry is there no pipeline of the run is attempted again.
C13_failed_run_redispatched_iff_no_entry ==
    [][ /\ (/\ just_yielded
            /\ check_symlinks_complete
            /\ failed_before(subdir)
            /\ eligible_but_for_output(subdir))
              => (dispatching(subdir)' <=> ~entry_in_output_tree(subdir))
        /\ \A r \in Names :
              entry_in_output_tree(r) =>
                /\ entry_in_output_tree(r)'
                /\ ~dispatching(r) =>
                      \A i \in 1..Len(config["pipelines"]) :
                          launches'[<<r, i>>] = launches[<<r, i>>]
      ]_vars

\* a later scan pass skips a run whose failed attempt left its entry in
\* the output tree, though one of its pipelines has no marker
C13_witness ==
    /\ yielded_skipped
    /\ check_symlinks_complete
    /\ pass = 2
    /\ failed_before(subdir)
    /\ eligible_but_for_output(subdir)
    /\ entry_in_output_tree(subdir)
    /\ \E i \in 1..Len(config["pipelines"]) :
          /\ launches[<<subdir, i>>] = 1
          /\ output_dir_path(subdir, config["pipelines"][i])
                \notin DOMAIN analysis_complete_json

RECURSIVE launched(_)
\* the number of attempts counted in launches over a set of (run, pipeline)
launched(keys) ==
    IF keys = {} THEN 0
    ELSE LET k == CHOOSE x \in keys : TRUE
         IN launches[k] + launched(keys \ {k})

\* C14 as stated: no two attempts, of different pipelines in one call of
\* analyze_run or of the same run in different passes, are given the same
\* work directory path: as many paths have been given as attempts made.
C14_work_dir_unique ==
    Cardinality(work_dirs_given) = launched(DOMAIN launches)

\* an event of that type is among those of the last step
has_logged(type) == \E i \in 1..Len(logged) : logged[i].event_type = type

\* C15 as stated: an attempt whose process exited 0 and whose work
\* directory could not be deleted logs delete_analysis_work_dir_failed and
\* keeps its marker; delete_analysis_work_dir_failed is logged only for
\* such an attempt, and analysis_work_dir_deleted only for an attempt whose
\* work directory is gone.
C15_delete_failure_logged ==
    attempt_finished =>
        LET deletion_failed == /\ last_attempt.outcome = "completed"
                               /\ last_attempt.work_dir_left
        IN
        /\ deletion_failed =>
              /\ has_logged("delete_analysis_work_dir_failed")
              /\ last_attempt.output_dir \in DOMAIN analysis_complete_json
        /\ has_logged("delete_analysis_work_dir_failed") => deletion_failed
        /\ has_logged("analysis_work_dir_deleted") =>
              last_attempt.work_dir \notin analysis_work_dir

\* the waiting orchestrator has run r in hand: yielded as ready to it and
\* not dispatched yet, or being dispatched by it
in_other_hand(r) ==
    /\ other[1] \in {"yielded", "analyzing"}
    /\ other[7] # None \/ other[8] # None
    /\ other[5] = r

\* C16: the check of the output tree is no mutual exclusion between two
\* orchestrators: while one of them has a run in hand, the other still
\* finds it ready as long as no entry named after the run is in the output
\* tree, so both can launch the same pipeline against the same run.
C16_no_mutual_exclusion ==
    (/\ just_yielded
     /\ in_other_hand(subdir)
     /\ eligible_but_for_output(subdir)
     /\ ~entry_in_output_tree(subdir))
        => yielded # None

\* both orchestrators, each in its one pass, have launched the first
\* pipeline against the same run: the process of the one that went first
\* exited 0, that of the other has just exited non-zero
C16_witness ==
    /\ attempt_finished
    /\ other[1] = "idle"
    /\ other[2] = pass
    /\ last_attempt.pipeline = 1
    /\ last_attempt.outcome = "failed"
    /\ last_attempt.output_dir \in exited_zero
    /\ launches[<<run["sequencing_run_id"], 1>>] = 2

\* the value that follows the j-th flag in the command line of an attempt
flag_at(a, j) ==
    LET parameters == config["pipelines"][a.pipeline].pipeline_parameters
    IN a.pipeline_command[Len(a.pipeline_command) - 2 * (Len(parameters) - j) - 1]
value_at(a, j) ==
    LET parameters == config["pipelines"][a.pipeline].pipeline_parameters
    IN a.pipeline_command[Len(a.pipeline_command) - 2 * (Len(parameters) - j)]

\* C17: in the command line of every attempt, the value after --<flag> is,
\* for a flag configured null, the field of that name of the run
\* descriptor (for outdir the output directory of the attempt's own
\* pipeline, for fastq_input the run directory), and for any other flag the
\* text of the configured value, also when the descriptor has such a field.
C17_parameter_values ==
    pc \in {"analyzing", "returned"} =>
        \A k \in 1..Len(attempts) :
            LET a == attempts[k]
                pipeline == config["pipelines"][a.pipeline]
                parameters == pipeline.pipeline_parameters
                run_id == run["sequencing_run_id"]
            IN \A j \in 1..Len(parameters) :
                /\ flag_at(a, j) = <<"-", "-", parameters[j].flag>>
                /\ value_at(a, j) =
                      CASE parameters[j].value.type = "str" ->
                              parameters[j].value.value
                        [] parameters[j].value.type = "int" ->
                              decimal(parameters[j].value.value)
                        [] OTHER ->
                              CASE parameters[j].flag = "outdir" ->
                                      <<"analysis_output_dir", run_id,
                                        output_dir_name(pipeline)>>
                                [] parameters[j].flag = "fastq_input" ->
                                      <<"fastq_by_run_dir", run_id>>
                                [] OTHER -> run[parameters[j].flag]

\* the second pipeline of a call has been launched with a configured
\* fastq_input, its own output directory for the null outdir, and 16 threads
C17_witness ==
    /\ attempt_finished
    /\ Len(attempts) = 2
    /\ attempts[1].pipeline = 1
    /\ attempts[2].pipeline = 2
    /\ value_at(attempts[1], 2) =
          <<"analysis_output_dir", run["sequencing_run_id"],
            <<"q", "-", "c", "-", "0", ".", "1", "-", "o", "u", "t", "p", "u", "t">>>>
    /\ value_at(attempts[2], 1) = <<"/", "x">>
    /\ value_at(attempts[2], 2) =
          <<"analysis_output_dir", run["sequencing_run_id"],
            <<"t", "-", "1", ".", "0", "-", "o", "u", "t", "p", "u", "t">>>>
    /\ value_at(attempts[2], 3) = <<"1", "6">>

\* C18: a name that matches the GridION pattern gets instrument_type
\* gridion, one that matches the PromethION pattern promethion, no name
\* matches both, and a name that matches neither gets unknown and is never
\* yielded as ready: a yielded descriptor says gridion or promethion, as
\* its name does.
C18_instrument_type ==
    /\ \A name \in DOMAIN fastq_by_run_dir :
          /\ ~(gridion_run_id_regex(name) /\ promethion_run_id_regex(name))
          /\ gridion_run_id_regex(name) => instrument_type(name) = "gridion"
          /\ promethion_run_id_regex(name) =>
                instrument_type(name) = "promethion"
          /\ ~gridion_run_id_regex(name) /\ ~promethion_run_id_regex(name) =>
                instrument_type(name) = "unknown"
    /\ yielded_ready =>
          /\ yielded["sequencing_run_id"] = subdir
          /\ yielded["instrument_type"] \in {"gridion", "promethion"}
          /\ yielded["instrument_type"] = "gridion" <=>
                gridion_run_id_regex(subdir)
          /\ yielded["instrument_type"] = "promethion" <=>
                promethion_run_id_regex(subdir)
    /\ just_yielded
          /\ ~gridion_run_id_regex(subdir) /\ ~promethion_run_id_regex(subdir)
          => yielded = None

\* a PromethION run whose position field is an underscore, with digits in
\* both halves of its tail, is yielded as promethion
C18_witness ==
    /\ yielded_ready
    /\ yielded["instrument_type"] = "promethion"
    /\ subdir =
          <<"2", "0", "2", "3", "0", "1", "0", "1", "_", "1", "2", "0", "0",
            "_", "P", "2", "S", "_", "7", "-", "_",
            "_", "A", "1", "C", "2", "E", "3", "G", "4",
            "_", "a", "1", "c", "2", "e", "3", "g", "4">>

\* entry r is still to be examined by the pass in progress
to_be_examined(r) == \E i \in 1..Len(subdirs) : subdirs[i] = r

\* C19: a pass lists the parent directory when it starts, every entry
\* once, hands out one result for each entry in turn and ends only when
\* none is left; with every launched process exiting, a pass interleaved
\* with dispatch comes to its end; and a pass that starts after a run has
\* become eligible lists it again and yields it as ready.
C19_pass_terminates ==
    /\ [][ /\ pass' # pass =>
                /\ Len(subdirs') = Cardinality(DOMAIN fastq_by_run_dir)
                /\ \A name \in DOMAIN fastq_by_run_dir :
                      \E i \in 1..Len(subdirs') : subdirs'[i] = name
           /\ (pass' = pass /\ subdirs' # subdirs) =>
                /\ pc = "scanning" /\ pc' = "yielded"
                /\ subdirs # <<>>
                /\ subdir' = Head(subdirs)
                /\ subdirs' = Tail(subdirs)
           /\ (pc = "scanning" /\ pc' = "yielded") => subdirs' # subdirs
           /\ (pc # "idle" /\ pc' = "idle") => subdirs = <<>>
         ]_vars
    /\ (pc # "idle") ~> (pc = "idle")
    /\ (/\ pc = "scanning"
        /\ to_be_examined(GridionRun)
        /\ eligible_but_for_output(GridionRun)
        /\ ~entry_in_output_tree(GridionRun))
          ~> (yielded_ready /\ subdir = GridionRun)

\* the last pass yields as ready a run that the pass before it skipped
C19_witness ==
    /\ yielded_ready
    /\ pass = MaxPasses
    /\ subdirs = <<>>
    /\ ready_count[subdir] = 1
    /\ \A i \in 1..Len(config["pipelines"]) : launches[<<subdir, i>>] = 0

\* the marker of pipeline i of run r is in the output tree
marker_written_for(r, i) ==
    output_dir_path(r, config["pipelines"][i]) \in DOMAIN analysis_complete_json

\* C20: a run for which the dispatcher has written a completion marker is
\* not yielded as ready by any pass, and a pipeline whose marker is there
\* for a run is not launched against that run again.
C20_completed_never_again ==
    /\ [](yielded_ready =>
            \A i \in 1..Len(config["pipelines"]) :
                ~marker_written_for(subdir, i))
    /\ [][\A r \in Names, i \in 1..Len(config["pipelines"]) :
            marker_written_for(r, i) =>
                launches'[<<r, i>>] = launches[<<r, i>>]]_vars

\* a later scan pass skips a run, eligible but for its output entry, whose
\* first pipeline completed in an earlier pass
C20_witness ==
    /\ yielded_skipped
    /\ check_symlinks_complete
    /\ pass = 2
    /\ eligible_but_for_output(subdir)
    /\ marker_written_for(subdir, 1)
    /\ launches[<<subdir, 1>>] = 1

====
